---- MODULE Spec2Model ----
(***************************************************************************)
(* The CWAC MCP scan lifecycle tracker: ScanRegistry (scan_registry.py),   *)
(* the query tools of server.py and the child processes they launch.       *)
(* Strings that the code inspects character by character (audit names,     *)
(* directory names, paths) are sequences of one-character strings.         *)
(* Optional[T] is a sequence: None is <<>>, a present value x is <<x>>.    *)
(* results_dir, a path, is itself a nonempty sequence when present.       *)
(***************************************************************************)
EXTENDS Integers, Sequences, FiniteSets, TLC

\* ---------------------------------------------------------------- bounds
\* Largest value of the wall clock.
MaxTime == 1
\* Lines a pipe between a child and the server holds before a write blocks.
PipeCap == 1

\* ------------------------------------------------------------- constants
\* sanitized[:50]
MaxAuditNameLen == 50

None == <<>>
Some(x) == <<x>>

\* The scan IDs (uuid4 values) of one run, in the order they are drawn.
IdSpace == {1, 2}
Times == 0..MaxTime

\* Audit names given by callers.
Labels == { <<"a">>, <<"b", "_", "a">>, <<"a", "!">> }

\* The runs explored. scans: how many scans the callers launch; labels: the
\* audit names they give; script: what every scan engine does, in order,
\* unless it exits earlier ("mkdir": it creates its results directory; "out",
\* "err": it prints a line); tools: whether the callers go through the tools
\* of server.py or use the registry directly.
Workloads == {
    [scans |-> 1, labels |-> {<<"a">>}, tools |-> FALSE,
     script |-> <<"mkdir", "out", "out", "err">>],
    [scans |-> 2, labels |-> {<<"a">>, <<"b", "_", "a">>}, tools |-> FALSE,
     script |-> <<"mkdir">>],
    [scans |-> 1, labels |-> {<<"a">>, <<"a", "!">>}, tools |-> TRUE,
     script |-> <<"mkdir", "out">>] }

ExitCodes == {0, 1}

Modes == {"cwac", "axe-only", "unavailable"}

ResultsRoot == "results/"
OutputRoot == "output/"
Roots == <<ResultsRoot, OutputRoot>>

\* ----------------------------------------------------- string operations
Alnum == {"a", "b", "0", "1", "2", "3", "4", "5", "6", "7", "8", "9"}
Whitespace == {" "}

EndsWith(s, suffix) ==
    /\ Len(s) >= Len(suffix)
    /\ SubSeq(s, Len(s) - Len(suffix) + 1, Len(s)) = suffix

RECURSIVE LStrip(_)
LStrip(s) == IF s # <<>> /\ Head(s) \in Whitespace THEN LStrip(Tail(s)) ELSE s

RECURSIVE RStrip(_)
RStrip(s) ==
    IF s # <<>> /\ s[Len(s)] \in Whitespace
    THEN RStrip(SubSeq(s, 1, Len(s) - 1))
    ELSE s

Strip(s) == RStrip(LStrip(s))

\* re.sub(r"[^a-zA-Z0-9_\-.]", "_", s)
ReplaceUnsafe(s) ==
    [i \in 1..Len(s) |-> IF s[i] \in Alnum \cup {"_", "-", "."} THEN s[i] ELSE "_"]

\* re.sub(r"_+", "_", s)
RECURSIVE CollapseUnderscores(_)
CollapseUnderscores(s) ==
    IF Len(s) < 2 THEN s
    ELSE IF s[1] = "_" /\ s[2] = "_" THEN CollapseUnderscores(Tail(s))
    ELSE <<s[1]>> \o CollapseUnderscores(Tail(s))

Truncate(s, n) == IF Len(s) > n THEN SubSeq(s, 1, n) ELSE s

_sanitize_audit_name(name) ==
    Truncate(CollapseUnderscores(ReplaceUnsafe(Strip(name))), MaxAuditNameLen)

\* strftime of the clock: one digit character per clock value.
Timestamp(t) == <<ToString(t)>>

\* f"{timestamp}_{safe_name}"
DirName(t, safe_name) == Timestamp(t) \o <<"_">> \o safe_name

\* os.path.join(root, name)
PathJoin(root, name) == <<root>> \o name

\* ------------------------------------------------- results-dir discovery
\* A directory entry of a results root: [root, name, is_dir, st_ctime,
\* birth]. st_ctime is what entry.stat().st_ctime reports; birth is when the
\* entry was created. On POSIX st_ctime is the time of the last metadata
\* change, so st_ctime >= birth.
\*
\* A listing is what one call sees of the two roots: per root, whether
\* os.path.isdir holds, the entries in the order os.scandir yields them, and
\* failAt = the number of entries handled before an OSError ends the loop
\* (Len(entries) when none is raised).

\* Mutant: entry.is_dir() is not asked.
RootCandidates_anyentry(L, suffix) ==
    IF ~L.isdir THEN <<>>
    ELSE LET seen == SubSeq(L.entries, 1, L.failAt)
             hits == SelectSeq(seen, LAMBDA e : EndsWith(e.name, suffix))
         IN [i \in 1..Len(hits) |-> <<hits[i].st_ctime, PathJoin(hits[i].root, hits[i].name)>>]

\* candidates.append((entry.stat().st_ctime, entry.path)) for the matches
RootCandidates(L, suffix) ==
    IF ~L.isdir THEN <<>>
    ELSE LET seen == SubSeq(L.entries, 1, L.failAt)
             hits == SelectSeq(seen, LAMBDA e : e.is_dir /\ EndsWith(e.name, suffix))
         IN [i \in 1..Len(hits) |-> <<hits[i].st_ctime, PathJoin(hits[i].root, hits[i].name)>>]

\* candidates.sort(key=lambda c: c[0], reverse=True): stable, descending
RECURSIVE SortCandidates(_)
SortCandidates(c) ==
    IF c = <<>> THEN <<>>
    ELSE LET x == c[Len(c)]
             rest == SortCandidates(SubSeq(c, 1, Len(c) - 1))
             k == Cardinality({i \in 1..Len(rest) : rest[i][1] >= x[1]})
         IN SubSeq(rest, 1, k) \o <<x>> \o SubSeq(rest, k + 1, Len(rest))

_discover_results_dir(audit_name, listing) ==
    LET suffix == <<"_">> \o audit_name
        candidates == RootCandidates(listing[1], suffix) \o RootCandidates(listing[2], suffix)
    IN IF candidates = <<>> THEN None ELSE SortCandidates(candidates)[1][2]

\* All orders of a finite set.
Orders(S) ==
    {s \in [1..Cardinality(S) -> S] : \A x \in S : \E i \in 1..Cardinality(S) : s[i] = x}

\* The listings a file system state can produce for one root.
RootListings(entries) ==
    {[isdir |-> entries # {}, entries |-> o, failAt |-> k] :
        o \in Orders(entries), k \in 0..Cardinality(entries)}

VARIABLES
    mode,      \* SCAN_MODE of server.py
    scans,     \* ScanRegistry._scans: scan id -> ScanRecord
    procs,     \* the child process behind each Popen handle
    fs,        \* directory entries under the two results roots
    tmp,       \* temporary artifacts on disk: <<kind, scan id>>
    clock,     \* wall clock
    nextId,    \* number of uuid4 values drawn so far
    call,      \* the server call in progress
    result,    \* what the last call returned, if it was a tool of server.py
               \* or update_status
    load,      \* the workload of this run
    dq,        \* input and output of a stand-alone _discover_results_dir call
    threads,   \* the threads inside update_status, when callers are concurrent
    rd,        \* the arguments and the outcome of a stand-alone result_reader call
    crawl      \* the crawl loop of a stand-alone fallback scanner

vars == <<load, mode, scans, procs, fs, tmp, clock, nextId, call, result, dq, threads, rd, crawl>>


\* ----------------------------------------------------------- records
\* No call in progress. A call in progress records the tool or method called
\* (op), the scan it is refreshing (id), its place in update_status (pc), the
\* polled return code (rc) and the scans cwac_list_scans has yet to visit
\* (keys). snap and alive are history: the record, and whether the child was
\* still running, when update_status polled it.
Idle == [op |-> "idle", id |-> 0, pc |-> "idle", rc |-> None, keys |-> <<>>,
         snap |-> None, alive |-> FALSE]

\* What a call returns: the kind of payload and the "status" it carries.
Response(op, kind, status) == [op |-> op, kind |-> kind, status |-> status]

NoResult == Response("none", "none", "")

NoDq == [pc |-> "off", audit_name |-> <<>>, entries |-> {}, listing |-> <<>>, out |-> None]

NoRd == [pc |-> "off"]

NoCrawl == [pc |-> "off"]

\* Mutant: the process handle is not stored in the record.
ScanRecord_no_process(process, config_path, base_urls_dir, results_dir, start_time, audit_name) ==
    [process |-> None, config_path |-> config_path, base_urls_dir |-> base_urls_dir,
     results_dir |-> results_dir, status |-> "running", start_time |-> start_time,
     end_time |-> None, audit_name |-> audit_name,
     stdout_lines |-> <<>>, stderr_lines |-> <<>>]

\* ScanRecord(...) as create and cwac_scan construct it.
ScanRecord(process, config_path, base_urls_dir, results_dir, start_time, audit_name) ==
    [process |-> process, config_path |-> config_path, base_urls_dir |-> base_urls_dir,
     results_dir |-> results_dir, status |-> "running", start_time |-> start_time,
     end_time |-> None, audit_name |-> audit_name,
     stdout_lines |-> <<>>, stderr_lines |-> <<>>]

\* A child started by subprocess.Popen with stdout=PIPE, stderr=PIPE. wrote
\* is history: the results directory the engine has created, None before.
Popen(engine, audit_name, script) ==
    [engine |-> engine, audit_name |-> audit_name, script |-> script,
     pout |-> <<>>, perr |-> <<>>, nout |-> 0, nerr |-> 0,
     exited |-> FALSE, code |-> 0, wrote |-> None]

\* datetime.now(): the clock may have advanced since it was last read.
Now == {t \in Times : t = clock \/ t = clock + 1}

\* os.makedirs(path, exist_ok=True) at time t
Makedirs(entries, root, name, t) ==
    IF \E e \in entries : e.root = root /\ e.name = name THEN entries
    ELSE entries \cup {[root |-> root, name |-> name, is_dir |-> TRUE,
                        st_ctime |-> t, birth |-> t]}

\* self._scans[scan_id] = record
register(registry, scan_id, record) ==
    [x \in DOMAIN registry \cup {scan_id} |->
        IF x = scan_id THEN record ELSE registry[x]]

\* The listings _discover_results_dir can see of a set of entries.
ListingsOf(entries) == {<<l1, l2>> :
    l1 \in RootListings({e \in entries : e.root = ResultsRoot}),
    l2 \in RootListings({e \in entries : e.root = OutputRoot})}

Listings == ListingsOf(fs)

Init ==
    /\ load \in Workloads
    /\ mode \in (IF load.tools THEN Modes ELSE {"cwac"})
    /\ scans = <<>>
    /\ procs = <<>>
    /\ fs = {}
    /\ tmp = {}
    /\ clock = 0
    /\ nextId = 0
    /\ call = Idle
    /\ result = NoResult
    /\ dq = NoDq
    /\ threads = <<>>
    /\ crawl = NoCrawl
    /\ rd = NoRd

\* ------------------------------------------------------ launching scans
\* Mutant: the scan ID is drawn once and used for every scan.
uuid4_reused == CHOOSE i \in IdSpace : \A j \in IdSpace : i <= j

\* str(uuid.uuid4()): a value not drawn before.
uuid4 == nextId + 1

\* The handle of the next child process started.
NewHandle == nextId + 1

\* cwac_scan, mode "cwac": build_config, start_cwac, ScanRecord, register.
ScanCwacMode(scan_id, audit_name, urls_ok, launch_ok, t) ==
    LET safe_name == _sanitize_audit_name(audit_name)
        config_filename == <<"config", scan_id>>
        base_urls_dir == <<"base_urls", scan_id>>
    IN IF safe_name = <<>>
       THEN /\ result' = Response("cwac_scan", "error", "")
            /\ UNCHANGED <<scans, procs, fs, tmp>>
       ELSE /\ tmp' = tmp \cup {config_filename, base_urls_dir}
            /\ fs' = fs
            /\ IF urls_ok /\ launch_ok
               THEN /\ procs' = register(procs, NewHandle, Popen("cwac", safe_name, load.script))
                    /\ scans' = register(scans, scan_id,
                           ScanRecord(Some(NewHandle), config_filename, base_urls_dir,
                                      None, t, audit_name))
                    /\ result' = Response("cwac_scan", "started", "running")
               ELSE /\ result' = Response("cwac_scan", "error", "")
                    /\ UNCHANGED <<scans, procs>>

\* Mutant: the record is registered although start_scanner raised.
ScanFallbackMode_registers_failed(scan_id, audit_name, urls_ok, launch_ok, t) ==
    LET safe_name == _sanitize_audit_name(audit_name)
        output_dir_name == DirName(t, safe_name)
        output_dir == PathJoin(OutputRoot, output_dir_name)
        config_path == <<"axe_config", scan_id>>
    IN IF ~urls_ok \/ safe_name = <<>>
       THEN /\ result' = Response("cwac_scan", "error", "")
            /\ UNCHANGED <<scans, procs, fs, tmp>>
       ELSE /\ fs' = Makedirs(fs, OutputRoot, output_dir_name, t)
            /\ tmp' = tmp \cup {config_path}
            /\ IF launch_ok
               THEN /\ procs' = register(procs, NewHandle, Popen("axe", safe_name, load.script))
                    /\ scans' = register(scans, scan_id,
                           ScanRecord(Some(NewHandle), config_path, <<>>,
                                      output_dir, t, audit_name))
                    /\ result' = Response("cwac_scan", "started", "running")
               ELSE /\ result' = Response("cwac_scan", "error", "")
                    /\ scans' = register(scans, scan_id,
                           ScanRecord(None, config_path, <<>>, output_dir, t, audit_name))
                    /\ UNCHANGED procs

\* cwac_scan, any other mode: build_axe_config, start_scanner, ScanRecord,
\* register.
ScanFallbackMode(scan_id, audit_name, urls_ok, launch_ok, t) ==
    LET safe_name == _sanitize_audit_name(audit_name)
        output_dir_name == DirName(t, safe_name)
        output_dir == PathJoin(OutputRoot, output_dir_name)
        config_path == <<"axe_config", scan_id>>
    IN IF ~urls_ok \/ safe_name = <<>>
       THEN /\ result' = Response("cwac_scan", "error", "")
            /\ UNCHANGED <<scans, procs, fs, tmp>>
       ELSE /\ fs' = Makedirs(fs, OutputRoot, output_dir_name, t)
            /\ tmp' = tmp \cup {config_path}
            /\ IF launch_ok
               THEN /\ procs' = register(procs, NewHandle, Popen("axe", safe_name, load.script))
                    /\ scans' = register(scans, scan_id,
                           ScanRecord(Some(NewHandle), config_path, <<>>,
                                      output_dir, t, audit_name))
                    /\ result' = Response("cwac_scan", "started", "running")
               ELSE /\ result' = Response("cwac_scan", "error", "")
                    /\ UNCHANGED <<scans, procs>>

cwac_scan(audit_name, urls_ok, launch_ok) ==
    /\ load.tools
    /\ audit_name \in load.labels
    /\ call = Idle
    /\ nextId < load.scans
    /\ nextId' = nextId + 1
    /\ \E t \in Now :
        /\ clock' = t
        /\ IF mode = "cwac"
           THEN ScanCwacMode(uuid4, audit_name, urls_ok, launch_ok, t)
           ELSE ScanFallbackMode(uuid4, audit_name, urls_ok, launch_ok, t)
    /\ UNCHANGED <<load, mode, call, dq, threads, rd, crawl>>

\* ScanRegistry.create for a CWAC process the caller has started.
create(audit_name) ==
    /\ ~load.tools
    /\ audit_name \in load.labels
    /\ call = Idle
    /\ nextId < load.scans
    /\ nextId' = nextId + 1
    /\ \E t \in Now :
        /\ clock' = t
        /\ scans' = register(scans, uuid4,
               ScanRecord(Some(NewHandle), <<"config", nextId + 1>>,
                          <<"base_urls", nextId + 1>>, None, t, audit_name))
    /\ procs' = register(procs, NewHandle,
           Popen("cwac", _sanitize_audit_name(audit_name), load.script))
    /\ tmp' = tmp \cup {<<"config", nextId + 1>>, <<"base_urls", nextId + 1>>}
    /\ result' = NoResult
    /\ UNCHANGED <<load, mode, fs, call, dq, threads, rd, crawl>>

\* -------------------------------------------------------- child processes
Running(id) == id \in DOMAIN procs /\ ~procs[id].exited

\* The child prints a line: the write blocks while the pipe is full.
ChildWrite(id) ==
    /\ Running(id)
    /\ procs[id].script # <<>>
    /\ LET p == procs[id]
           rest == Tail(p.script)
       IN \/ /\ Head(p.script) = "out"
             /\ Len(p.pout) < PipeCap
             /\ procs' = [procs EXCEPT ![id] = [p EXCEPT !.script = rest,
                    !.pout = Append(p.pout, p.nout + 1), !.nout = p.nout + 1]]
          \/ /\ Head(p.script) = "err"
             /\ Len(p.perr) < PipeCap
             /\ procs' = [procs EXCEPT ![id] = [p EXCEPT !.script = rest,
                    !.perr = Append(p.perr, p.nerr + 1), !.nerr = p.nerr + 1]]
    /\ UNCHANGED <<load, mode, scans, fs, tmp, clock, nextId, call, result, dq, threads, rd, crawl>>

\* The output_dir of the config the fallback scanner was started with.
OutputDirOf(id) ==
    IF \E s \in DOMAIN scans : scans[s].process = Some(id)
    THEN scans[CHOOSE s \in DOMAIN scans : scans[s].process = Some(id)].results_dir
    ELSE None

\* The engine creates its results directory: CWAC under results/ with its
\* own timestamp, axe_scanner.py the output_dir of its config (which
\* build_axe_config has created already).
ChildMkdir(id) ==
    /\ Running(id)
    /\ procs[id].script # <<>>
    /\ Head(procs[id].script) = "mkdir"
    /\ \E t \in Now :
        /\ clock' = t
        /\ fs' = IF procs[id].engine = "cwac"
                 THEN Makedirs(fs, ResultsRoot, DirName(t, procs[id].audit_name), t)
                 ELSE fs
        /\ procs' = [procs EXCEPT
                ![id].script = Tail(@),
                ![id].wrote = IF procs[id].engine = "cwac"
                              THEN PathJoin(ResultsRoot, DirName(t, procs[id].audit_name))
                              ELSE OutputDirOf(id)]
    /\ UNCHANGED <<load, mode, scans, tmp, nextId, call, result, dq, threads, rd, crawl>>

\* The child exits, at the end of its script or before, which closes its
\* ends of both pipes.
ChildExit(id, code) ==
    /\ Running(id)
    /\ procs' = [procs EXCEPT ![id].exited = TRUE, ![id].code = code]
    /\ UNCHANGED <<load, mode, scans, fs, tmp, clock, nextId, call, result, dq, threads, rd, crawl>>

\* ---------------------------------------------------------- update_status
QueryTools == {"cwac_get_results", "cwac_get_summary", "cwac_generate_report"}

\* Mutant: the early return for finished scans is missing.
AlreadyFinished_never(record) == FALSE

\* if record.status in ("complete", "failed"): return
AlreadyFinished(record) == record.status \in {"complete", "failed"}

\* process = record.process
Child(id) == scans[id].process[1]

\* Mutant: the return code is read without asking whether the child exited.
poll_exited(id) == Some(procs[Child(id)].code)

\* return_code = process.poll()
poll(id) == IF procs[Child(id)].exited THEN Some(procs[Child(id)].code) ELSE None

\* Mutant: the two outcomes are swapped.
StatusFor_inverted(return_code) == IF return_code = 0 THEN "failed" ELSE "complete"

\* Mutant: a nonzero return code leaves the status as it was.
StatusFor_stuck(return_code) == IF return_code = 0 THEN "complete" ELSE "running"

\* if return_code == 0: "complete" else: "failed"
StatusFor(return_code) == IF return_code = 0 THEN "complete" ELSE "failed"

\* record.results_dir = self._discover_results_dir(record.audit_name)
ResolvedDir(record, listing) == _discover_results_dir(record.audit_name, listing)

\* Mutant: the check for a failed scan is missing.
QueryOutcome_skips_failed(op, id, registry) ==
    LET record == registry[id]
    IN IF record.status = "running"
       THEN {Response(op, "not_ready", "running")}
       ELSE IF record.results_dir = None
       THEN {Response(op, "no_results_dir", "")}
       ELSE {Response(op, "success", "")}

\* The readiness checks shared by cwac_get_results, cwac_get_summary and
\* cwac_generate_report, after the refresh.
QueryOutcome(op, id, registry) ==
    LET record == registry[id]
    IN IF record.status = "running"
       THEN {Response(op, "not_ready", "running")}
       ELSE IF record.status = "failed"
       THEN {Response(op, "not_ready", "failed")}
       ELSE IF record.results_dir = None
       THEN {Response(op, "no_results_dir", "")}
       ELSE {Response(op, "success", "")}
            \cup (IF op = "cwac_generate_report"
                  THEN {Response(op, "error", "")}
                  ELSE {})

\* What a call returns once its update_status has returned. update_status
\* itself returns None: its response names the return statement it took.
Responses(op, id, registry, path) ==
    IF op = "update_status" THEN {Response(op, path, "")}
    ELSE IF op = "cwac_scan_status"
    THEN IF id \notin DOMAIN registry
         THEN {Response(op, "not_found", "")}
         ELSE {Response(op, "status", registry[id].status)}
    ELSE QueryOutcome(op, id, registry)

\* update_status returns to its caller; scans' is set by the step.
Return(op, id, keys, path) ==
    IF op = "cwac_list_scans"
    THEN /\ call' = [Idle EXCEPT !.op = op, !.pc = "loop", !.keys = keys]
         /\ UNCHANGED result
    ELSE /\ call' = Idle
         /\ result' \in Responses(op, id, scans', path)

\* update_status up to and including process.poll().
EnterUpdateStatus(op, id, keys) ==
    IF id \notin DOMAIN scans
    THEN /\ scans' = scans
         /\ Return(op, id, keys, "unknown_id")
    ELSE IF AlreadyFinished(scans[id])
    THEN /\ scans' = scans
         /\ Return(op, id, keys, "already_finished")
    ELSE IF scans[id].process = None
    THEN /\ scans' = scans
         /\ Return(op, id, keys, "no_process")
    ELSE /\ scans' = scans
         /\ call' = [op |-> op, id |-> id, pc |-> "capture_stdout", rc |-> poll(id),
                     keys |-> keys, snap |-> Some(scans[id]),
                     alive |-> ~procs[Child(id)].exited]
         /\ UNCHANGED result

\* registry.update_status(scan_id), called directly.
update_status(id) ==
    /\ call = Idle
    /\ EnterUpdateStatus("update_status", id, <<>>)
    /\ UNCHANGED <<load, mode, procs, fs, tmp, clock, nextId, dq, threads, rd, crawl>>

cwac_scan_status(id) ==
    /\ load.tools
    /\ call = Idle
    /\ EnterUpdateStatus("cwac_scan_status", id, <<>>)
    /\ UNCHANGED <<load, mode, procs, fs, tmp, clock, nextId, dq, threads, rd, crawl>>

\* cwac_get_results, cwac_get_summary, cwac_generate_report
QueryTool(op, id) ==
    /\ load.tools
    /\ call = Idle
    /\ IF id \notin DOMAIN scans
       THEN /\ result' = Response(op, "not_found", "")
            /\ UNCHANGED <<scans, call>>
       ELSE EnterUpdateStatus(op, id, <<>>)
    /\ UNCHANGED <<load, mode, procs, fs, tmp, clock, nextId, dq, threads, rd, crawl>>

\* for scan_id, record in registry.list_all().items(): the keys in insertion
\* order.
SortedKeys(registry) ==
    LET ids == DOMAIN registry
    IN CHOOSE s \in [1..Cardinality(ids) -> ids] :
        \A i, j \in 1..Cardinality(ids) : i < j => s[i] < s[j]

cwac_list_scans ==
    /\ load.tools
    /\ call = Idle
    /\ call' = [Idle EXCEPT !.op = "cwac_list_scans", !.pc = "loop",
                            !.keys = SortedKeys(scans)]
    /\ UNCHANGED <<load, mode, scans, procs, fs, tmp, clock, nextId, result, dq, threads, rd, crawl>>

ListNext ==
    /\ call.op = "cwac_list_scans"
    /\ call.pc = "loop"
    /\ IF call.keys = <<>>
       THEN /\ call' = Idle
            /\ result' = Response("cwac_list_scans", "list", "")
            /\ scans' = scans
       ELSE EnterUpdateStatus("cwac_list_scans", Head(call.keys), Tail(call.keys))
    /\ UNCHANGED <<load, mode, procs, fs, tmp, clock, nextId, dq, threads, rd, crawl>>

\* Mutant: each captured line replaces the stored lines.
CaptureStdout_overwrites ==
    /\ call.pc = "capture_stdout"
    /\ LET id == call.id
           p == procs[Child(id)]
       IN IF p.pout # <<>>
          THEN /\ scans' = [scans EXCEPT ![id].stdout_lines = <<Head(p.pout)>>]
               /\ procs' = [procs EXCEPT ![Child(id)].pout = Tail(@)]
               /\ UNCHANGED call
          ELSE /\ p.exited
               /\ call' = [call EXCEPT !.pc = "capture_stderr"]
               /\ UNCHANGED <<scans, procs>>
    /\ UNCHANGED <<load, mode, fs, tmp, clock, nextId, result, dq, threads, rd, crawl>>

\* _capture_output: for line in process.stdout -- one line per step; the
\* loop ends at end-of-file, which a pipe reports once the child has closed
\* its end; with the pipe empty and open the read blocks.
CaptureStdout ==
    /\ call.pc = "capture_stdout"
    /\ LET id == call.id
           p == procs[Child(id)]
       IN IF p.pout # <<>>
          THEN /\ scans' = [scans EXCEPT ![id].stdout_lines = Append(@, Head(p.pout))]
               /\ procs' = [procs EXCEPT ![Child(id)].pout = Tail(@)]
               /\ UNCHANGED call
          ELSE /\ p.exited
               /\ call' = [call EXCEPT !.pc = "capture_stderr"]
               /\ UNCHANGED <<scans, procs>>
    /\ UNCHANGED <<load, mode, fs, tmp, clock, nextId, result, dq, threads, rd, crawl>>

\* _capture_output: for line in process.stderr; then back in update_status.
CaptureStderr ==
    /\ call.pc = "capture_stderr"
    /\ LET id == call.id
           p == procs[Child(id)]
       IN IF p.perr # <<>>
          THEN /\ scans' = [scans EXCEPT ![id].stderr_lines = Append(@, Head(p.perr))]
               /\ procs' = [procs EXCEPT ![Child(id)].perr = Tail(@)]
               /\ UNCHANGED <<call, result>>
          ELSE /\ p.exited
               /\ UNCHANGED <<scans, procs>>
               /\ IF call.rc = None
                  THEN Return(call.op, id, call.keys, "still_running")
                  ELSE /\ call' = [call EXCEPT !.pc = "terminated"]
                       /\ UNCHANGED result
    /\ UNCHANGED <<load, mode, fs, tmp, clock, nextId, dq, threads, rd, crawl>>

\* record.end_time = datetime.now()
SetEndTime ==
    /\ call.pc = "terminated"
    /\ \E t \in Now :
        /\ clock' = t
        /\ scans' = [scans EXCEPT ![call.id].end_time = Some(t)]
    /\ call' = [call EXCEPT !.pc = "set_status"]
    /\ UNCHANGED <<load, mode, procs, fs, tmp, nextId, result, dq, threads, rd, crawl>>

\* record.status = "complete" / "failed"
SetStatus ==
    /\ call.pc = "set_status"
    /\ scans' = [scans EXCEPT ![call.id].status = StatusFor(call.rc[1])]
    /\ call' = [call EXCEPT !.pc = "discover"]
    /\ UNCHANGED <<load, mode, procs, fs, tmp, clock, nextId, result, dq, threads, rd, crawl>>

\* record.results_dir = self._discover_results_dir(record.audit_name)
Discover ==
    /\ call.pc = "discover"
    /\ \E listing \in Listings :
        scans' = [scans EXCEPT ![call.id].results_dir = ResolvedDir(scans[call.id], listing)]
    /\ Return(call.op, call.id, call.keys, "terminated")
    /\ UNCHANGED <<load, mode, procs, fs, tmp, clock, nextId, dq, threads, rd, crawl>>

\* ------------------------------------------------- other registry calls
\* self._scans.get(scan_id): whether it is a record or None.
Lookup(registry, id) == IF id \in DOMAIN registry THEN "record" ELSE "None"

\* Mutant: looking up an unknown ID stores an empty record under it.
get_inserts(id) ==
    /\ call = Idle
    /\ result' = Response("get", "record", "")
    /\ scans' = IF id \in DOMAIN scans THEN scans
                ELSE register(scans, id, ScanRecord(None, <<>>, <<>>, None, clock, <<>>))
    /\ UNCHANGED <<load, mode, procs, fs, tmp, clock, nextId, call, dq, threads, rd, crawl>>

\* registry.get(scan_id)
get(id) ==
    /\ call = Idle
    /\ result' = Response("get", Lookup(scans, id), "")
    /\ UNCHANGED <<load, mode, scans, procs, fs, tmp, clock, nextId, call, dq, threads, rd, crawl>>

\* registry.list_all()
list_all ==
    /\ call = Idle
    /\ result' = NoResult
    /\ UNCHANGED <<load, mode, scans, procs, fs, tmp, clock, nextId, call, dq, threads, rd, crawl>>

\* Mutant: cleanup also drops the record from the registry.
cleanup_drops_record(id) ==
    /\ call = Idle
    /\ tmp' = IF id \in DOMAIN scans
              THEN tmp \ {scans[id].config_path, scans[id].base_urls_dir}
              ELSE tmp
    /\ scans' = [x \in DOMAIN scans \ {id} |-> scans[x]]
    /\ result' = NoResult
    /\ UNCHANGED <<load, mode, procs, fs, clock, nextId, call, dq, threads, rd, crawl>>

\* registry.cleanup(scan_id)
cleanup(id) ==
    /\ call = Idle
    /\ tmp' = IF id \in DOMAIN scans
              THEN tmp \ {scans[id].config_path, scans[id].base_urls_dir}
              ELSE tmp
    /\ result' = NoResult
    /\ UNCHANGED <<load, mode, scans, procs, fs, clock, nextId, call, dq, threads, rd, crawl>>

Next ==
    \/ \E a \in Labels, u \in BOOLEAN, l \in BOOLEAN : cwac_scan(a, u, l)
    \/ \E a \in Labels : create(a)
    \/ \E id \in IdSpace : ChildWrite(id)
    \/ \E id \in IdSpace : ChildMkdir(id)
    \/ \E id \in IdSpace, code \in ExitCodes : ChildExit(id, code)
    \/ \E id \in IdSpace : update_status(id)
    \/ \E id \in IdSpace : cwac_scan_status(id)
    \/ \E op \in QueryTools, id \in IdSpace : QueryTool(op, id)
    \/ cwac_list_scans
    \/ ListNext
    \/ CaptureStdout
    \/ CaptureStderr
    \/ SetEndTime
    \/ SetStatus
    \/ Discover
    \/ \E id \in IdSpace : get(id)
    \/ list_all
    \/ \E id \in IdSpace : cleanup(id)

Spec == Init /\ [][Next]_vars

\* --------------------------------------- the registry with register public
\* IDs a caller can pass to register: one issued earlier, or one of its own
\* choosing ("test-id") that uuid4 does not draw.
RegisterIds == IdSpace \cup {3}

\* The record a caller builds by hand: no process, status "running".
HandBuiltRecord ==
    ScanRecord(None, <<"test.json">>, <<"/tmp/test">>, None, 0, <<"a">>)

\* The runs explored with register public.
RegistryWorkloads == {
    [scans |-> 2, labels |-> {<<"a">>}, tools |-> FALSE, script |-> <<>>],
    [scans |-> 1, labels |-> {<<"a">>}, tools |-> TRUE, script |-> <<"mkdir", "out">>] }

InitRegistry ==
    /\ load \in RegistryWorkloads
    /\ mode = "cwac"
    /\ scans = <<>>
    /\ procs = <<>>
    /\ fs = {}
    /\ tmp = {}
    /\ clock = 0
    /\ nextId = 0
    /\ call = Idle
    /\ result = NoResult
    /\ dq = NoDq
    /\ threads = <<>>
    /\ crawl = NoCrawl
    /\ rd = NoRd

\* registry.register(scan_id, record), called by any caller: the caller
\* knows the IDs issued so far and its own.
RegistryRegister(scan_id, record) ==
    /\ call = Idle
    /\ scan_id \in DOMAIN scans \cup (RegisterIds \ IdSpace)
    /\ scans' = register(scans, scan_id, record)
    /\ result' = NoResult
    /\ UNCHANGED <<load, mode, procs, fs, tmp, clock, nextId, call, dq, threads, rd, crawl>>

NextRegistry ==
    \/ Next
    \/ \E id \in RegisterIds : RegistryRegister(id, HandBuiltRecord)
    \/ \E id \in RegisterIds \ IdSpace : update_status(id)
    \/ \E id \in RegisterIds \ IdSpace : get(id)
    \/ \E id \in RegisterIds \ IdSpace : cleanup(id)

SpecRegistry == InitRegistry /\ [][NextRegistry]_vars

\* ------------------------------------- _discover_results_dir on its own
\* Entries per call of the stand-alone specification.
MaxEntries == 2

DiscoverLabels == { <<"a">> }
DiscoverNames == { <<"0", "_", "a">>, <<"1", "_", "a">>, <<"a">> }

DiscoverPaths == {ResultsRoot, OutputRoot} \X DiscoverNames

\* What stat() can say of an entry: a directory with st_ctime at or after its
\* creation time, or a plain file (whose times the function never reads).
EntryAttrs ==
    {[is_dir |-> TRUE, st_ctime |-> c, birth |-> b] : c \in Times, b \in Times}
        \cup {[is_dir |-> FALSE, st_ctime |-> 0, birth |-> 0]}

\* The contents the two roots can have: at most MaxEntries entries, one per path.
DirContents ==
    UNION {
        {{[root |-> p[1], name |-> p[2], is_dir |-> f[p].is_dir,
           st_ctime |-> f[p].st_ctime, birth |-> f[p].birth] : p \in P} :
            f \in [P -> {x \in EntryAttrs : x.st_ctime >= x.birth}]} :
        P \in {Q \in SUBSET DiscoverPaths : Cardinality(Q) <= MaxEntries}}

InitDiscover ==
    /\ load = CHOOSE w \in Workloads : w.scans = 1 /\ ~w.tools
    /\ mode = "cwac"
    /\ scans = <<>>
    /\ procs = <<>>
    /\ fs = {}
    /\ tmp = {}
    /\ clock = 0
    /\ nextId = 0
    /\ call = Idle
    /\ result = NoResult
    /\ \E a \in DiscoverLabels, E \in DirContents :
        dq = [pc |-> "call", audit_name |-> a, entries |-> E, listing |-> <<>>, out |-> None]
    /\ threads = <<>>
    /\ crawl = NoCrawl
    /\ rd = NoRd

\* ScanRegistry._discover_results_dir(audit_name) against the entries.
DiscoverCall ==
    /\ dq.pc = "call"
    /\ \E listing \in ListingsOf(dq.entries) :
        dq' = [dq EXCEPT !.pc = "done", !.listing = listing,
                         !.out = _discover_results_dir(dq.audit_name, listing)]
    /\ UNCHANGED <<load, mode, scans, procs, fs, tmp, clock, nextId, call, result, threads, rd, crawl>>

NextDiscover == DiscoverCall

SpecDiscover == InitDiscover /\ [][NextDiscover]_vars

\* ------------------------------------ update_status from several threads
\* The threads of the server that call update_status at the same time.
ThreadIds == {1, 2}

\* A thread outside update_status. id is the scan it refreshes and rc its
\* polled return code; assigned
\* and resolved are history: whether this thread has assigned end_time and
\* has stored a resolved results_dir.
ThreadIdle ==
    [pc |-> "idle", id |-> 0, rc |-> None, assigned |-> FALSE, resolved |-> FALSE]

\* One running scan whose process has exited with a line left in its stdout
\* pipe, its results directory made or not, and two threads about to call
\* update_status for it.
InitThreads ==
    /\ load = CHOOSE w \in Workloads : w.scans = 1 /\ ~w.tools
    /\ mode = "cwac"
    /\ \E code \in ExitCodes :
        procs = register(<<>>, 1,
            [Popen("cwac", <<"a">>, <<>>) EXCEPT
                !.exited = TRUE, !.code = code, !.pout = <<1>>, !.nout = 1])
    /\ scans = register(<<>>, 1,
            ScanRecord(Some(1), <<"config", 1>>, <<"base_urls", 1>>, None, 0, <<"a">>))
    /\ fs \in {{}, Makedirs({}, ResultsRoot, DirName(0, <<"a">>), 0)}
    /\ tmp = {<<"config", 1>>, <<"base_urls", 1>>}
    /\ clock = 0
    /\ nextId = 1
    /\ call = Idle
    /\ result = NoResult
    /\ dq = NoDq
    /\ threads = [t \in ThreadIds |-> ThreadIdle]
    /\ crawl = NoCrawl
    /\ rd = NoRd

\* update_status(scan_id) in thread t, up to and including process.poll().
ThreadEnter(t, id) ==
    /\ threads[t].pc = "idle"
    /\ id \in DOMAIN scans
    /\ threads' = [threads EXCEPT ![t].id = id, ![t].pc =
            IF AlreadyFinished(scans[id]) \/ scans[id].process = None
            THEN "done" ELSE "capture_stdout",
                                  ![t].rc = IF AlreadyFinished(scans[id]) \/ scans[id].process = None
                                            THEN None ELSE poll(id)]
    /\ UNCHANGED <<load, mode, scans, procs, fs, tmp, clock, nextId, call, result, dq, rd, crawl>>

\* _capture_output in thread t: stdout to end-of-file; stderr is empty and
\* closed.
ThreadCapture(t) ==
    LET id == threads[t].id IN
    /\ threads[t].pc = "capture_stdout"
    /\ LET p == procs[Child(id)]
       IN IF p.pout # <<>>
          THEN /\ scans' = [scans EXCEPT ![id].stdout_lines = Append(@, Head(p.pout))]
               /\ procs' = [procs EXCEPT ![Child(id)].pout = Tail(@)]
               /\ UNCHANGED threads
          ELSE /\ p.exited
               /\ threads' = [threads EXCEPT ![t].pc =
                      IF threads[t].rc = None THEN "done" ELSE "terminated"]
               /\ UNCHANGED <<scans, procs>>
    /\ UNCHANGED <<load, mode, fs, tmp, clock, nextId, call, result, dq, rd, crawl>>

\* record.end_time = datetime.now() in thread t
ThreadSetEndTime(t) ==
    LET id == threads[t].id IN
    /\ threads[t].pc = "terminated"
    /\ \E now \in Now :
        /\ clock' = now
        /\ scans' = [scans EXCEPT ![id].end_time = Some(now)]
    /\ threads' = [threads EXCEPT ![t].pc = "set_status", ![t].assigned = TRUE]
    /\ UNCHANGED <<load, mode, procs, fs, tmp, nextId, call, result, dq, rd, crawl>>

\* record.status = "complete" / "failed" in thread t
ThreadSetStatus(t) ==
    LET id == threads[t].id IN
    /\ threads[t].pc = "set_status"
    /\ scans' = [scans EXCEPT ![id].status = StatusFor(threads[t].rc[1])]
    /\ threads' = [threads EXCEPT ![t].pc = "discover"]
    /\ UNCHANGED <<load, mode, procs, fs, tmp, clock, nextId, call, result, dq, rd, crawl>>

\* record.results_dir = self._discover_results_dir(...) in thread t
ThreadDiscover(t) ==
    LET id == threads[t].id IN
    /\ threads[t].pc = "discover"
    /\ \E listing \in Listings :
        scans' = [scans EXCEPT ![id].results_dir = ResolvedDir(scans[id], listing)]
    /\ threads' = [threads EXCEPT ![t].pc = "done", ![t].resolved = TRUE]
    /\ UNCHANGED <<load, mode, procs, fs, tmp, clock, nextId, call, result, dq, rd, crawl>>

NextThreads ==
    \E t \in ThreadIds, id \in IdSpace :
        \/ ThreadEnter(t, id)
        \/ ThreadCapture(t)
        \/ ThreadSetEndTime(t)
        \/ ThreadSetStatus(t)
        \/ ThreadDiscover(t)

SpecThreads == InitThreads /\ [][NextThreads]_vars


\* ------------------------------------------------ read_results, stand alone
\* result_reader.read_results as a function of the directory it is pointed at
\* and of its three filters. A directory holds CSV files, listed by name. A
\* file is readable or not (open or decoding fails); a readable file has a
\* header, with or without an impact column, and data rows. csv.DictReader
\* fills the fields a short row lacks with None, so a cell is None or a
\* string. Every row carries the file and the line it came from.

\* Rows per file.
MaxRows == 2

CsvNames == <<"a", "b">>

CellStrings == {<<"c">>, <<"m">>}

Cells == {Some(s) : s \in CellStrings} \cup {None}

AuditTypes == {None, Some("a"), Some("z")}

ImpactFilters == {None, Some(<<>>), Some(<<"C">>)}

LimitValues == {None} \cup {Some(n) : n \in (0 - 1) .. (MaxRows + 1)}

\* str.lower, on the letters the model uses.
LowerChar(c) == IF c = "C" THEN "c" ELSE IF c = "M" THEN "m" ELSE c

Lower(s) == [i \in DOMAIN s |-> LowerChar(s[i])]

\* The data rows a file of this name can hold.
RowsOf(name, has_impact) ==
    UNION { { [i \in 1 .. n |-> [file |-> name, line |-> i, impact |-> cells[i]]] :
                cells \in [1 .. n -> IF has_impact THEN Cells ELSE {None}] } :
            n \in 0 .. MaxRows }

CsvFiles(name) ==
    { [name |-> name, readable |-> FALSE, has_impact |-> FALSE, rows |-> <<>>] }
    \cup { [name |-> name, readable |-> TRUE, has_impact |-> h, rows |-> rows] :
           h \in {TRUE}, rows \in RowsOf(name, TRUE) }
    \cup { [name |-> name, readable |-> TRUE, has_impact |-> h, rows |-> rows] :
           h \in {FALSE}, rows \in RowsOf(name, FALSE) }

\* The files of a directory, in name order, any of them absent.
FileLists ==
    { <<>> }
    \cup { <<f>> : f \in CsvFiles(CsvNames[1]) \cup CsvFiles(CsvNames[2]) }
    \cup { <<f, g>> : f \in CsvFiles(CsvNames[1]), g \in CsvFiles(CsvNames[2]) }

Directories ==
    { [isdir |-> FALSE, listable |-> FALSE, files |-> <<>>] }
    \cup { [isdir |-> TRUE, listable |-> FALSE, files |-> fl] : fl \in FileLists }
    \cup { [isdir |-> TRUE, listable |-> TRUE, files |-> fl] : fl \in FileLists }

\* Python truth of an optional string: None and "" are false.
Truthy(opt) == opt # None /\ opt[1] # <<>>

\* The files to read: the one file of the audit type if it exists, else all
\* the files os.listdir gives, sorted; none if listing fails.
_resolve_csv_files(dir, audit_type) ==
    IF audit_type # None /\ audit_type[1] # ""
    THEN SelectSeq(dir.files, LAMBDA f : f.name = audit_type[1])
    ELSE IF dir.listable THEN dir.files ELSE <<>>

\* The rows of one file; none on any error of open or of the csv reader.
_read_csv_file(f) == IF f.readable THEN f.rows ELSE <<>>

\* rows[:n]
Slice(rows, n) ==
    IF n >= 0
    THEN SubSeq(rows, 1, IF n < Len(rows) THEN n ELSE Len(rows))
    ELSE SubSeq(rows, 1, IF Len(rows) + n > 0 THEN Len(rows) + n ELSE 0)

\* if limit is not None: rows = rows[:limit]
TruncateRows(rows, limit) == IF limit # None THEN Slice(rows, limit[1]) ELSE rows

Returned(rows) == [raised |-> FALSE, rows |-> rows]

\* r.get("impact", "").lower() on a cell that is None: AttributeError, which
\* nothing in result_reader catches.
Raised == [raised |-> TRUE, rows |-> <<>>]

\* Whether the impact filter is applied to the rows read from f.
Filtered(f, impact) ==
    /\ Truthy(impact)
    /\ _read_csv_file(f) # <<>>
    /\ f.has_impact

\* The list comprehension of the impact filter.
MatchingRows(file_rows, impact) ==
    SelectSeq(file_rows, LAMBDA r : Lower(r.impact[1]) = Lower(impact[1]))

\* The loop over csv_files, from the rows gathered so far.
RECURSIVE ReadLoop(_, _, _, _)
ReadLoop(csv_files, rows, impact, limit) ==
    IF csv_files = <<>>
    THEN Returned(rows)
    ELSE LET f == Head(csv_files)
             file_rows == _read_csv_file(f)
         IN  IF Filtered(f, impact) /\ \E i \in DOMAIN file_rows : file_rows[i].impact = None
             THEN Raised
             ELSE LET kept == IF Filtered(f, impact)
                              THEN MatchingRows(file_rows, impact)
                              ELSE file_rows
                      extended == rows \o kept
                  IN  IF limit # None /\ Len(extended) >= limit[1]
                      THEN Returned(extended)
                      ELSE ReadLoop(Tail(csv_files), extended, impact, limit)

read_results(dir, audit_type, impact, limit) ==
    IF ~dir.isdir
    THEN Returned(<<>>)
    ELSE LET looped == ReadLoop(_resolve_csv_files(dir, audit_type), <<>>, impact, limit)
         IN  IF looped.raised THEN Raised ELSE Returned(TruncateRows(looped.rows, limit))

InitReader ==
    /\ load = CHOOSE w \in Workloads : TRUE
    /\ mode = "cwac"
    /\ scans = <<>>
    /\ procs = <<>>
    /\ fs = {}
    /\ tmp = {}
    /\ clock = 0
    /\ nextId = 0
    /\ call = Idle
    /\ result = NoResult
    /\ dq = NoDq
    /\ threads = <<>>
    /\ crawl = NoCrawl
    /\ \E dir \in Directories, audit_type \in AuditTypes,
          impact \in ImpactFilters, limit \in LimitValues :
            rd = [pc |-> "ready", dir |-> dir, audit_type |-> audit_type,
                  impact |-> impact, limit |-> limit, out |-> Returned(<<>>)]

ReadCall ==
    /\ rd.pc = "ready"
    /\ rd' = [rd EXCEPT !.pc = "done",
                        !.out = read_results(rd.dir, rd.audit_type, rd.impact, rd.limit)]
    /\ UNCHANGED <<load, mode, scans, procs, fs, tmp, clock, nextId, call, result, dq, threads, crawl>>

NextReader == ReadCall

SpecReader == InitReader /\ [][NextReader]_vars

\* ------------------------------------------------------------ properties
Terminal == {"complete", "failed"}

IsPrefix(s, t) == Len(s) <= Len(t) /\ SubSeq(t, 1, Len(s)) = s

\* Inside update_status, after process.poll().
InUpdateStatus ==
    call.pc \in {"capture_stdout", "capture_stderr", "terminated", "set_status", "discover"}

\* The step on which update_status returns from after process.poll().
UpdateStatusReturns == InUpdateStatus /\ ~InUpdateStatus'

\* C1: once a job's status is complete or failed, no step of update_status,
\* get, list_all, cleanup or a query tool (nor any other step) makes it
\* running again or switches it between complete and failed.
C1_TerminalStatusIsFinal ==
    [][\A id \in DOMAIN scans :
        scans[id].status \in Terminal =>
            /\ id \in DOMAIN scans'
            /\ scans'[id].status = scans[id].status]_vars

\* A failed job has been queried again after it failed.
C1_Witness ==
    /\ result = Response("cwac_get_results", "not_ready", "failed")
    /\ \E id \in DOMAIN scans : scans[id].status = "failed" /\ scans[id].end_time # None

\* C2: update_status changes a running job's status only as the polled exit
\* status says. While the call that polled a live process is in progress and
\* when it returns, status, end_time and results_dir are as they were and the
\* captured lines have only grown; a call that polled an exited process
\* returns with status complete for code 0 and failed for any other code.
C2_StatusFollowsPoll ==
    [][InUpdateStatus =>
        LET id == call.id
            before == call.snap[1]
            after == scans'[id]
        IN /\ call.alive =>
                /\ after.status = before.status
                /\ after.end_time = before.end_time
                /\ after.results_dir = before.results_dir
                /\ IsPrefix(before.stdout_lines, after.stdout_lines)
                /\ IsPrefix(before.stderr_lines, after.stderr_lines)
           /\ (~call.alive /\ UpdateStatusReturns) =>
                /\ before.status = "running"
                /\ procs[Child(id)].code = 0 => after.status = "complete"
                /\ procs[Child(id)].code # 0 => after.status = "failed"]_vars

\* update_status has seen a nonzero exit code and returned.
C2_Witness ==
    /\ result = Response("update_status", "terminated", "")
    /\ \E id \in DOMAIN scans :
        /\ scans[id].status = "failed"
        /\ procs[Child(id)].exited
        /\ procs[Child(id)].code # 0

\* C3: update_status on a job that is already complete or failed returns at
\* once and leaves the record (end_time, status, results_dir, stdout_lines,
\* stderr_lines) as it was.
C3_FinishedJobUntouched ==
    [][\A id \in DOMAIN scans :
        (scans[id].status \in Terminal /\ update_status(id)) =>
            /\ scans' = scans
            /\ procs' = procs
            /\ call' = Idle]_vars

\* update_status was called on a complete job that had captured output.
C3_Witness ==
    /\ result = Response("update_status", "already_finished", "")
    /\ \E id \in DOMAIN scans :
        /\ scans[id].status = "complete"
        /\ scans[id].stdout_lines # <<>>

\* C4: outside update_status, end_time is unset exactly while status is
\* running; end_time is assigned only by the update_status that saw the exit,
\* from unset, while the status is still running, and never changes after.
C4_EndTimeIffFinished ==
    [][/\ ~InUpdateStatus' =>
            \A id \in DOMAIN scans' :
                (scans'[id].end_time = None) <=> (scans'[id].status = "running")
       /\ \A id \in DOMAIN scans :
            (id \in DOMAIN scans' /\ scans'[id].end_time # scans[id].end_time) =>
                /\ scans[id].end_time = None
                /\ scans[id].status = "running"
                /\ call.pc = "terminated"
                /\ call.id = id]_vars

\* No call in progress and a complete job whose end_time was read off the
\* advanced clock.
C4_Witness ==
    /\ call = Idle
    /\ \E id \in DOMAIN scans :
        /\ scans[id].status = "complete"
        /\ scans[id].end_time = Some(MaxTime)

\* C5: once a job's results_dir holds a path, no step changes it; the
\* update_status that sees the exit keeps a results_dir set at registration.
C5_ResultsDirNeverChanges ==
    [][\A id \in DOMAIN scans :
        scans[id].results_dir # None =>
            /\ id \in DOMAIN scans'
            /\ scans'[id].results_dir = scans[id].results_dir]_vars

\* C6: update_status on a job whose process has not exited never waits: it
\* is never at a read of stdout or stderr with nothing to read and the
\* pipe still open.
C6_UpdateStatusNeverWaits ==
    ~ \/ /\ call.pc = "capture_stdout"
         /\ procs[Child(call.id)].pout = <<>>
         /\ ~procs[Child(call.id)].exited
      \/ /\ call.pc = "capture_stderr"
         /\ procs[Child(call.id)].perr = <<>>
         /\ ~procs[Child(call.id)].exited

\* The step on which the query tool op, called for scan id, returns.
QueryReturns(op, id) ==
    \/ /\ call = Idle
       /\ QueryTool(op, id)
       /\ call' = Idle
    \/ /\ call.op = op
       /\ call.id = id
       /\ UpdateStatusReturns

\* C7: cwac_get_results, cwac_get_summary and cwac_generate_report answer an
\* unknown scan ID with not-found and no status, a job that is running or
\* failed after the refresh with not-ready and that status, a complete job
\* without results_dir with "no results directory", and give a success payload
\* only for a complete job whose results_dir is set.
C7_QueryClassification ==
    [][\A op \in QueryTools, id \in IdSpace :
        QueryReturns(op, id) =>
            /\ result'.op = op
            /\ id \notin DOMAIN scans' => result' = Response(op, "not_found", "")
            /\ id \in DOMAIN scans' =>
                LET record == scans'[id]
                IN /\ record.status \in {"running", "failed"} =>
                        result' = Response(op, "not_ready", record.status)
                   /\ (record.status = "complete" /\ record.results_dir = None) =>
                        result' = Response(op, "no_results_dir", "")
                   /\ result'.kind = "success" =>
                        (record.status = "complete" /\ record.results_dir # None)
                   /\ result'.kind # "not_found"]_vars

\* cwac_generate_report has returned its success payload for a complete job.
C7_Witness ==
    /\ result = Response("cwac_generate_report", "success", "")
    /\ \E id \in DOMAIN scans :
        scans[id].status = "complete" /\ scans[id].results_dir # None

\* cwac_get_results returns for a job whose process had not exited when
\* update_status polled it.
RunningQueryReturns ==
    /\ call.op = "cwac_get_results"
    /\ call.alive
    /\ UpdateStatusReturns

\* C8 as stated: cwac_get_results on a job that is still running returns the
\* not-ready error and leaves every field of the record, stdout_lines and
\* stderr_lines included, as it was when the call began.
C8_RunningQueryLeavesRecord ==
    [][RunningQueryReturns =>
        /\ result' = Response("cwac_get_results", "not_ready", "running")
        /\ scans'[call.id] = call.snap[1]]_vars

\* C8: cwac_get_results on a job that is still running returns the not-ready
\* error with status running; status, end_time, results_dir and the fields
\* set at registration are as they were, and stdout_lines and stderr_lines
\* have only been extended at the end.
C8_RunningQueryOnlyAppendsOutput ==
    [][RunningQueryReturns =>
        LET before == call.snap[1]
            after == scans'[call.id]
        IN /\ result' = Response("cwac_get_results", "not_ready", "running")
           /\ after = [before EXCEPT !.stdout_lines = after.stdout_lines,
                                     !.stderr_lines = after.stderr_lines]
           /\ IsPrefix(before.stdout_lines, after.stdout_lines)
           /\ IsPrefix(before.stderr_lines, after.stderr_lines)]_vars

\* cwac_get_results has answered not-ready for a running job whose output it
\* captured on the way.
C8_Witness ==
    /\ result = Response("cwac_get_results", "not_ready", "running")
    /\ \E id \in DOMAIN scans :
        scans[id].status = "running" /\ scans[id].stdout_lines # <<>>

\* The subdirectories among entries whose name ends with "_" + audit_name.
Matching(entries, audit_name) ==
    {e \in entries : e.is_dir /\ EndsWith(e.name, <<"_">> \o audit_name)}

PathOf(e) == PathJoin(e.root, e.name)

\* No OSError ended the listing of either root.
NoOSError(listing) ==
    \A i \in 1..2 : listing[i].failAt = Len(listing[i].entries)

\* The entries a listing yielded before an OSError, if any, ended it.
Listed(listing) ==
    UNION {{listing[i].entries[k] : k \in 1..listing[i].failAt} : i \in 1..2}

\* C9 as stated: for every label and every content of the two roots,
\* _discover_results_dir returns None if and only if no subdirectory of any
\* root has a name ending with "_" + label, and otherwise the path of one.
C9_NoneIffNoMatch ==
    dq.pc = "done" =>
        LET M == Matching(dq.entries, dq.audit_name)
        IN /\ (dq.out = None) <=> (M = {})
           /\ dq.out # None => dq.out \in {PathOf(e) : e \in M}

\* C9: _discover_results_dir returns None if and only if no subdirectory
\* whose name ends with "_" + label was listed before an OSError, if any,
\* ended the listing of its root, and otherwise the path of one such
\* subdirectory; so when no OSError is raised it returns None if and only if
\* no root holds such a subdirectory.
C9_NoneIffNoMatchListed ==
    dq.pc = "done" =>
        LET M == Matching(dq.entries, dq.audit_name)
            seen == Matching(Listed(dq.listing), dq.audit_name)
        IN /\ (dq.out = None) <=> (seen = {})
           /\ dq.out # None => dq.out \in {PathOf(e) : e \in seen}
           /\ NoOSError(dq.listing) => ((dq.out = None) <=> (M = {}))

\* A call that found the one matching subdirectory next to a plain file with
\* a matching name, no OSError raised.
C9_Witness ==
    /\ dq.pc = "done"
    /\ NoOSError(dq.listing)
    /\ dq.out # None
    /\ Cardinality(Matching(dq.entries, dq.audit_name)) = 1
    /\ \E e \in dq.entries : ~e.is_dir /\ EndsWith(e.name, <<"_">> \o dq.audit_name)

\* C10: when several subdirectories match, _discover_results_dir returns the
\* one created last, whichever root holds it and whatever the order of the
\* listing (no OSError raised).
C10_LatestCreatedWins ==
    (dq.pc = "done" /\ NoOSError(dq.listing)) =>
        \A e \in Matching(dq.entries, dq.audit_name) :
            (\A o \in Matching(dq.entries, dq.audit_name) \ {e} : o.birth < e.birth) =>
                dq.out = PathOf(e)

\* C11 as stated: in every reachable registry state, every record whose
\* status is running has a process handle.
C11_RunningHasProcess ==
    \A id \in DOMAIN scans :
        scans[id].status = "running" => scans[id].process # None

\* C11: a running record without a process handle enters the registry only
\* through register (create and cwac_scan always store a handle), and
\* update_status returns from such a record at once, leaving it running and
\* the registry unchanged.
C11_NoProcessOnlyByRegister ==
    [][/\ \A id \in RegisterIds :
            (/\ id \in DOMAIN scans'
             /\ scans'[id].status = "running"
             /\ scans'[id].process = None) =>
                \/ id \in DOMAIN scans /\ scans[id] = scans'[id]
                \/ RegistryRegister(id, scans'[id])
       /\ \A id \in DOMAIN scans :
            (/\ scans[id].status = "running"
             /\ scans[id].process = None
             /\ update_status(id)) =>
                /\ scans' = scans
                /\ call' = Idle
                /\ result' = Response("update_status", "no_process", "")]_vars

\* update_status has returned from a hand-built running record without a
\* process while a created scan, with its handle, is in the registry too.
C11_Witness ==
    /\ result = Response("update_status", "no_process", "")
    /\ \E id \in DOMAIN scans : scans[id].status = "running" /\ scans[id].process = None
    /\ \E id \in DOMAIN scans : scans[id].process # None

\* What identifies the record stored under an ID: the fields set when it
\* was built, which no method of the registry assigns.
Identity(record) ==
    <<record.process, record.config_path, record.base_urls_dir,
      record.start_time, record.audit_name>>

\* C12: after any sequence of create, register and cwac_scan calls every ID
\* maps to the record first stored under it: no step replaces the record of
\* an ID already in the registry, and no ID is issued twice.
C12_FirstRecordStays ==
    [][\A id \in DOMAIN scans :
        /\ id \in DOMAIN scans'
        /\ Identity(scans'[id]) = Identity(scans[id])]_vars

\* C13: stdout_lines and stderr_lines only grow by appending: on every step
\* of the tracker, the tools (cwac_scan_status, which returns a tail of the
\* lists, among them) and the children, each stored list has its earlier
\* value as a prefix.
C13_LinesAppendOnly ==
    [][\A id \in DOMAIN scans :
        /\ id \in DOMAIN scans'
        /\ IsPrefix(scans[id].stdout_lines, scans'[id].stdout_lines)
        /\ IsPrefix(scans[id].stderr_lines, scans'[id].stderr_lines)]_vars

\* A second line was appended to stdout_lines after the first, a line to
\* stderr_lines, and the call has returned.
C13_Witness ==
    /\ call = Idle
    /\ \E id \in DOMAIN scans :
        /\ Len(scans[id].stdout_lines) >= 2
        /\ scans[id].stderr_lines # <<>>

\* C14: when starting the external process fails inside cwac_scan, the
\* caller gets the structured error result and the registry is as before: no
\* record is added and no process is tracked.
C14_LaunchFailureAddsNoRecord ==
    [][\A a \in Labels :
        cwac_scan(a, TRUE, FALSE) =>
            /\ result' = Response("cwac_scan", "error", "")
            /\ scans' = scans
            /\ procs' = procs]_vars

\* Fallback mode: the output directory was made, start_scanner failed, and
\* cwac_scan returned the error with the registry still empty.
C14_Witness ==
    /\ result = Response("cwac_scan", "error", "")
    /\ scans = <<>>
    /\ procs = <<>>
    /\ nextId > 0
    /\ fs # {}

\* The temporary files written for the scan stored under id.
TempFilesOf(id) == {scans[id].config_path, scans[id].base_urls_dir}

\* C15: cleanup(scan_id) deletes the scan's config file and base_urls
\* directory if they exist and changes nothing else: the registry maps every
\* ID to the same record, the other scans' files stay, and a cleanup that
\* finds the files gone changes nothing.
C15_CleanupOnlyDeletesTempFiles ==
    [][\A id \in DOMAIN scans :
        cleanup(id) =>
            /\ scans' = scans
            /\ procs' = procs
            /\ fs' = fs
            /\ tmp' \cap TempFilesOf(id) = {}
            /\ tmp \ tmp' \subseteq TempFilesOf(id)
            /\ tmp' \subseteq tmp
            /\ (tmp \cap TempFilesOf(id) = {}) => tmp' = tmp]_vars

\* A finished scan whose files were cleaned up is still in the registry,
\* next to a scan whose files are still there.
C15_Witness ==
    \E id, other \in DOMAIN scans :
        /\ scans[id].status = "complete"
        /\ tmp \cap TempFilesOf(id) = {}
        /\ TempFilesOf(other) \subseteq tmp

\* C16: for an ID that is not in the registry, get returns None, and
\* update_status and cleanup return at once; all three leave the registry,
\* every record, the processes and the files as they were.
C16_UnknownIdIsNoOp ==
    [][\A id \in RegisterIds \ DOMAIN scans :
        /\ get(id) => result' = Response("get", "None", "")
        /\ update_status(id) =>
            /\ call' = Idle
            /\ result' = Response("update_status", "unknown_id", "")
        /\ (get(id) \/ update_status(id) \/ cleanup(id)) =>
            UNCHANGED <<scans, procs, fs, tmp>>]_vars

\* update_status has returned from an unknown ID while a running scan is in
\* the registry.
C16_Witness ==
    /\ result = Response("update_status", "unknown_id", "")
    /\ \E id \in DOMAIN scans : scans[id].status = "running" /\ TempFilesOf(id) \subseteq tmp
    /\ IdSpace \ DOMAIN scans # {}

\* C17: when two threads call update_status at the same time for a running
\* scan whose process has exited, the transition out of running happens
\* once, whatever the interleaving: at most one of them assigns end_time
\* and at most one stores a resolved results_dir.
C17_TransitionOnce ==
    /\ Cardinality({t \in DOMAIN threads : threads[t].assigned}) <= 1
    /\ Cardinality({t \in DOMAIN threads : threads[t].resolved}) <= 1

\* The same read_results call without its limit.
Unlimited == read_results(rd.dir, rd.audit_type, rd.impact, None)

\* The first n rows of a list, none when n is below zero.
FirstRows(rows, n) ==
    IF n <= 0 THEN <<>> ELSE SubSeq(rows, 1, IF n < Len(rows) THEN n ELSE Len(rows))

\* C18: whenever read_results was called with a limit, and the same call
\* without the limit returns, the call returns, it returns at most limit rows
\* (no row when the limit is below zero), and the rows it returns are the
\* first limit rows of the call without the limit.
C18_LimitIsPrefix ==
    (rd.pc = "done" /\ rd.limit # None /\ ~Unlimited.raised) =>
        /\ ~rd.out.raised
        /\ Len(rd.out.rows) <= (IF rd.limit[1] > 0 THEN rd.limit[1] ELSE 0)
        /\ rd.out.rows = FirstRows(Unlimited.rows, rd.limit[1])

\* The same for the limits that are not below zero (holds).
LimitIsPrefixFromZero ==
    (rd.pc = "done" /\ rd.limit # None /\ rd.limit[1] >= 0) => C18_LimitIsPrefix

\* The files the call reads.
FilesRead == _resolve_csv_files(rd.dir, rd.audit_type)

RowsReturned == {rd.out.rows[i] : i \in DOMAIN rd.out.rows}

\* A cell equal to the impact value, ignoring case.
MatchesImpact(cell, impact) == cell # None /\ Lower(cell[1]) = Lower(impact[1])

\* The three parts of the impact filter, on what the call returned.
ImpactFilterExact ==
    \A k \in DOMAIN FilesRead :
        LET f == FilesRead[k]
        IN  IF f.has_impact
            THEN /\ \A r \in RowsReturned :
                        r.file = f.name => MatchesImpact(r.impact, rd.impact)
                 /\ \A i \in DOMAIN _read_csv_file(f) :
                        MatchesImpact(f.rows[i].impact, rd.impact) => f.rows[i] \in RowsReturned
            ELSE \A i \in DOMAIN _read_csv_file(f) : f.rows[i] \in RowsReturned

\* C19: whenever read_results was called with an impact value that is not
\* empty (and without a limit), every returned row of a file with an impact
\* column has an impact equal to the value ignoring case, every row of such a
\* file whose impact equals the value ignoring case is returned, and every row
\* of a file without an impact column is returned.
C19_ImpactFilter ==
    (rd.pc = "done" /\ Truthy(rd.impact) /\ rd.limit = None) => ImpactFilterExact

\* The same for the calls that return (holds).
ImpactFilterWhenReturned ==
    (rd.pc = "done" /\ Truthy(rd.impact) /\ rd.limit = None /\ ~rd.out.raised)
        => ImpactFilterExact

\* C20: for every directory state and every audit_type, impact and limit,
\* a finished read_results call has returned a row list: it has not raised.
C20_ReadNeverRaises ==
    rd.pc = "done" => ~rd.out.raised

\* ------------------------------------- the summary helpers, stand alone
\* _count_by_field, _top_n_by_field and get_summary of result_reader as
\* functions of their arguments. A row is a dict: a function from the keys it
\* has to cells. A dict of counts keeps its keys in insertion order, so it is
\* a sequence of <<key, count>> pairs.

\* Rows per list.
MaxSummaryRows == 3

\* n of the top_violations ranking.
TopViolations == 10

SummaryFields == {"id", "impact"}

SummaryCells == {None, Some("p"), Some("q")}

\* The dicts a row can be: no key, an id only, or an id and an impact.
RowDicts ==
    UNION { [keys -> SummaryCells] : keys \in {{}, {"id"}, SummaryFields} }

RowLists == UNION { [1 .. n -> RowDicts] : n \in 0 .. MaxSummaryRows }

\* The rows of one CSV file: every row has the keys of the header.
CsvRowLists ==
    { rows \in RowLists : \A i, j \in DOMAIN rows : DOMAIN rows[i] = DOMAIN rows[j] }

\* More distinct ids than the ranking keeps.
ManyIds == <<"v01", "v02", "v03", "v04", "v05", "v06", "v07", "v08", "v09", "v10", "v11">>

ManyViolations ==
    [i \in DOMAIN ManyIds |->
        [k \in SummaryFields |-> IF k = "id" THEN Some(ManyIds[i]) ELSE Some("p")]]

AxeFile == "axe_core_audit"

OtherFile == "language_audit"

SummaryFile(name, readable, rows) == [name |-> name, readable |-> readable, rows |-> rows]

AxeFiles ==
    { SummaryFile(AxeFile, FALSE, <<>>), SummaryFile(AxeFile, TRUE, ManyViolations) }
    \cup { SummaryFile(AxeFile, TRUE, rows) : rows \in CsvRowLists }

OtherFiles == { SummaryFile(OtherFile, TRUE, rows) : rows \in {<<>>, <<[id |-> Some("p")]>>} }

\* The directories get_summary is pointed at; files in name order.
SummaryDirectories ==
    { [isdir |-> FALSE, listable |-> FALSE, files |-> <<>>] }
    \cup { [isdir |-> TRUE, listable |-> l, files |-> fl] :
           l \in BOOLEAN,
           fl \in {<<>>} \cup { <<f>> : f \in AxeFiles \cup OtherFiles }
                  \cup { <<f, g>> : f \in AxeFiles, g \in OtherFiles } }

\* row.get(field, "unknown")
FieldOrUnknown(row, field) == IF field \in DOMAIN row THEN row[field] ELSE Some("unknown")

\* counts[value] = counts.get(value, 0) + 1
CountOneMore(counts, value) ==
    IF \E i \in DOMAIN counts : counts[i][1] = value
    THEN [i \in DOMAIN counts |->
            IF counts[i][1] = value THEN <<value, counts[i][2] + 1>> ELSE counts[i]]
    ELSE Append(counts, <<value, 1>>)

RECURSIVE CountLoop(_, _, _)
CountLoop(rows, field, counts) ==
    IF rows = <<>>
    THEN counts
    ELSE CountLoop(Tail(rows), field, CountOneMore(counts, FieldOrUnknown(Head(rows), field)))

\* Mutant: rows without the field are not counted.
_count_by_field_skips_missing(rows, field) ==
    CountLoop(SelectSeq(rows, LAMBDA r : field \in DOMAIN r), field, <<>>)

_count_by_field(rows, field) == CountLoop(rows, field, <<>>)

\* One step of a stable sort by count, largest first: the item goes after
\* every item whose count is not smaller.
InsertByCount(sorted, item) ==
    LET k == Cardinality({i \in DOMAIN sorted : sorted[i][2] >= item[2]})
    IN  SubSeq(sorted, 1, k) \o <<item>> \o SubSeq(sorted, k + 1, Len(sorted))

RECURSIVE SortLoop(_, _)
SortLoop(items, sorted) ==
    IF items = <<>> THEN sorted ELSE SortLoop(Tail(items), InsertByCount(sorted, Head(items)))

\* Mutant: the counts are left in insertion order.
SortByCount_unsorted(items) == items

\* sorted(counts.items(), key=lambda item: item[1], reverse=True)
SortByCount(items) == SortLoop(items, <<>>)

\* [{"id": value, "count": count} for value, count in sorted_counts[:n]]
_top_n_by_field(rows, field, n) ==
    LET top == Slice(SortByCount(_count_by_field(rows, field)), n)
    IN  [i \in DOMAIN top |-> [id |-> top[i][1], count |-> top[i][2]]]

EmptySummary ==
    [total_issues |-> 0, by_audit_type |-> <<>>,
     axe_impact_breakdown |-> None, top_violations |-> None]

\* Mutant: the breakdowns are computed for an axe file that gave no rows too.
AxeBreakdown_when_empty(audit_key, rows) == audit_key = AxeFile

\* if audit_key == "axe_core_audit" and rows
AxeBreakdown(audit_key, rows) == audit_key = AxeFile /\ rows # <<>>

\* The loop over csv_files, from the summary built so far.
RECURSIVE SummaryLoop(_, _)
SummaryLoop(csv_files, summary) ==
    IF csv_files = <<>>
    THEN summary
    ELSE LET f == Head(csv_files)
             rows == _read_csv_file(f)
             counted == [summary EXCEPT
                            !.by_audit_type = Append(@, <<f.name, Len(rows)>>),
                            !.total_issues = @ + Len(rows)]
         IN  SummaryLoop(Tail(csv_files),
                 IF AxeBreakdown(f.name, rows)
                 THEN [counted EXCEPT
                          !.axe_impact_breakdown = Some(_count_by_field(rows, "impact")),
                          !.top_violations = Some(_top_n_by_field(rows, "id", TopViolations))]
                 ELSE counted)

get_summary(dir) ==
    IF ~dir.isdir
    THEN EmptySummary
    ELSE SummaryLoop(_resolve_csv_files(dir, None), EmptySummary)

\* The ranking sizes tried; the only call in the repository passes 10.
TopSizes == 0 .. MaxSummaryRows

InitSummary ==
    /\ load = CHOOSE w \in Workloads : TRUE
    /\ mode = "cwac"
    /\ scans = <<>>
    /\ procs = <<>>
    /\ fs = {}
    /\ tmp = {}
    /\ clock = 0
    /\ nextId = 0
    /\ call = Idle
    /\ result = NoResult
    /\ dq = NoDq
    /\ threads = <<>>
    /\ crawl = NoCrawl
    /\ \/ \E rows \in RowLists, field \in SummaryFields, n \in TopSizes :
            rd = [pc |-> "ready", fn |-> "helpers", rows |-> rows, field |-> field,
                  n |-> n, dir |-> None, out |-> None]
       \/ \E dir \in SummaryDirectories :
            rd = [pc |-> "ready", fn |-> "summary", rows |-> <<>>, field |-> "id",
                  n |-> 0, dir |-> Some(dir), out |-> None]

SummaryFrame ==
    UNCHANGED <<load, mode, scans, procs, fs, tmp, clock, nextId, call, result, dq, threads, crawl>>

CountCall ==
    /\ rd.pc = "ready"
    /\ rd.fn = "helpers"
    /\ rd' = [rd EXCEPT !.pc = "counted", !.out = Some(_count_by_field(rd.rows, rd.field))]
    /\ SummaryFrame

TopCall ==
    /\ rd.pc = "ready"
    /\ rd.fn = "helpers"
    /\ rd' = [rd EXCEPT !.pc = "ranked", !.out = Some(_top_n_by_field(rd.rows, rd.field, rd.n))]
    /\ SummaryFrame

SummaryCall ==
    /\ rd.pc = "ready"
    /\ rd.fn = "summary"
    /\ rd' = [rd EXCEPT !.pc = "summed", !.out = Some(get_summary(rd.dir[1]))]
    /\ SummaryFrame

NextSummary == CountCall \/ TopCall \/ SummaryCall

SpecSummary == InitSummary /\ [][NextSummary]_vars

RECURSIVE SumCounts(_)
SumCounts(counts) == IF counts = <<>> THEN 0 ELSE Head(counts)[2] + SumCounts(Tail(counts))

\* The rows of the call whose value for the field, "unknown" if they lack it,
\* is this key.
RowsUnder(key) ==
    {i \in DOMAIN rd.rows :
        IF rd.field \in DOMAIN rd.rows[i] THEN rd.rows[i][rd.field] = key
        ELSE key = Some("unknown")}

\* C21: the counts _count_by_field returns sum to the number of rows; the keys
\* are distinct and each key counts the rows that have its value, so each row
\* is in exactly one bucket; the rows that lack the field are the ones counted
\* under "unknown".
C21_CountsSumToRows ==
    rd.pc = "counted" =>
        LET counts == rd.out[1]
        IN  /\ SumCounts(counts) = Len(rd.rows)
            /\ \A i, j \in DOMAIN counts : counts[i][1] = counts[j][1] => i = j
            /\ \A i \in DOMAIN counts : counts[i][2] = Cardinality(RowsUnder(counts[i][1]))
            /\ \A r \in DOMAIN rd.rows : \E i \in DOMAIN counts : r \in RowsUnder(counts[i][1])

\* A list with rows that have the field and rows that lack it was counted.
C21_Witness ==
    /\ rd.pc = "counted"
    /\ Len(rd.rows) = MaxSummaryRows
    /\ \E i, j \in DOMAIN rd.rows :
            rd.field \in DOMAIN rd.rows[i] /\ rd.field \notin DOMAIN rd.rows[j]
    /\ \E i \in DOMAIN rd.out[1] : rd.out[1][i] = <<Some("unknown"), 1>>

\* The full ranking of the call's rows, stated without sorting: each pair of
\* _count_by_field stands behind the pairs of a greater count and the pairs of
\* the same count whose value _count_by_field met earlier.
FullRanking ==
    LET counts == _count_by_field(rd.rows, rd.field)
        Before(i) == {j \in DOMAIN counts :
                        \/ counts[j][2] > counts[i][2]
                        \/ counts[j][2] = counts[i][2] /\ j < i}
    IN  [k \in DOMAIN counts |->
            counts[CHOOSE i \in DOMAIN counts : Cardinality(Before(i)) = k - 1]]

\* The <<value, count>> pairs of the entries _top_n_by_field returned.
RankedPairs == [i \in DOMAIN rd.out[1] |-> <<rd.out[1][i].id, rd.out[1][i].count>>]

\* The distinct values of the field in the call's rows.
DistinctValues == {FieldOrUnknown(rd.rows[i], rd.field) : i \in DOMAIN rd.rows}

\* C22: what _top_n_by_field returns is a prefix of the full ranking (count
\* descending, equal counts in first-encountered order), of at most n entries
\* and at most as many entries as there are distinct values.
C22_TopIsRankingPrefix ==
    rd.pc = "ranked" =>
        /\ Len(RankedPairs) <= Len(FullRanking)
        /\ RankedPairs = SubSeq(FullRanking, 1, Len(RankedPairs))
        /\ Len(rd.out[1]) <= rd.n
        /\ Len(rd.out[1]) <= Cardinality(DistinctValues)

\* A ranking was cut to n entries, and its first entry is not the value met
\* first: sorting moved it.
C22_Witness ==
    /\ rd.pc = "ranked"
    /\ Len(rd.out[1]) = rd.n
    /\ rd.n >= 1
    /\ Cardinality(DistinctValues) > rd.n
    /\ rd.out[1][1].id # FieldOrUnknown(rd.rows[1], rd.field)
    /\ \E i, j \in DOMAIN rd.rows :
          i < j /\ FieldOrUnknown(rd.rows[i], rd.field) # FieldOrUnknown(rd.rows[j], rd.field)

\* Whether the summary carries the two axe fields.
HasBreakdown(summary) == summary.axe_impact_breakdown # None

HasTopViolations(summary) == summary.top_violations # None

\* Whether axe_core_audit.csv is a file of the directory.
AxeFileExists(dir) == dir.isdir /\ \E i \in DOMAIN dir.files : dir.files[i].name = AxeFile

\* Whether get_summary read at least one row from axe_core_audit.csv.
AxeRowsRead(dir) ==
    /\ dir.isdir
    /\ \E i \in DOMAIN _resolve_csv_files(dir, None) :
          /\ _resolve_csv_files(dir, None)[i].name = AxeFile
          /\ _read_csv_file(_resolve_csv_files(dir, None)[i]) # <<>>

\* by_audit_type["axe_core_audit"]
AxeCount(summary) ==
    LET i == CHOOSE i \in DOMAIN summary.by_audit_type : summary.by_audit_type[i][1] = AxeFile
    IN  summary.by_audit_type[i][2]

\* The two promises about the axe fields when they are present.
AxeFieldsSound(summary) ==
    HasBreakdown(summary) =>
        /\ SumCounts(summary.axe_impact_breakdown[1]) = AxeCount(summary)
        /\ Len(summary.top_violations[1]) <= TopViolations

\* C23 as stated: the summary carries axe_impact_breakdown and top_violations
\* exactly when axe_core_audit.csv exists in the directory; when present the
\* breakdown sums to by_audit_type["axe_core_audit"] and top_violations has
\* at most 10 entries.
C23_AxeFieldsIffFileExists ==
    rd.pc = "summed" =>
        /\ HasBreakdown(rd.out[1]) <=> AxeFileExists(rd.dir[1])
        /\ HasTopViolations(rd.out[1]) <=> AxeFileExists(rd.dir[1])
        /\ AxeFieldsSound(rd.out[1])

\* C23 amended: the summary carries both fields exactly when get_summary read
\* at least one row from axe_core_audit.csv; when present the breakdown sums
\* to by_audit_type["axe_core_audit"] and top_violations has at most 10
\* entries.
C23_AxeFieldsIffRowsRead ==
    rd.pc = "summed" =>
        /\ HasBreakdown(rd.out[1]) <=> AxeRowsRead(rd.dir[1])
        /\ HasTopViolations(rd.out[1]) <=> AxeRowsRead(rd.dir[1])
        /\ AxeFieldsSound(rd.out[1])

\* A summary of an axe file with more than 10 distinct ids: the ranking was
\* cut to 10.
C23_Witness ==
    /\ rd.pc = "summed"
    /\ HasBreakdown(rd.out[1])
    /\ AxeCount(rd.out[1]) > TopViolations
    /\ Len(rd.out[1].top_violations[1]) = TopViolations
    /\ rd.out[1].total_issues > AxeCount(rd.out[1])

\* The directory written by the process of a scan, None if it wrote none.
WrittenBy(id) ==
    IF scans[id].process # None /\ scans[id].process[1] \in DOMAIN procs
    THEN procs[scans[id].process[1]].wrote
    ELSE None

\* Two scans whose processes each wrote a directory of their own.
EachWroteItsOwn(i, j) ==
    /\ i # j
    /\ WrittenBy(i) # None
    /\ WrittenBy(j) # None
    /\ WrittenBy(i) # WrittenBy(j)

\* C24: of two scans launched with the same label whose processes each wrote
\* a directory of their own, one that has reached a terminal state does not
\* have the directory of the other as its results_dir.
C24_SameLabelOwnDirectory ==
    \A i, j \in DOMAIN scans :
        (/\ EachWroteItsOwn(i, j)
         /\ scans[i].audit_name = scans[j].audit_name
         /\ scans[i].status \in Terminal)
            => scans[i].results_dir # WrittenBy(j)

\* C25: a scan whose label _sanitize_audit_name changes, whose engine wrote
\* its directory and exited with code 0, and which update_status has marked
\* complete before it returned, has that directory as its results_dir.
C25_SanitizedLabelFindsDirectory ==
    \A i \in DOMAIN scans :
        (/\ call = Idle
         /\ scans[i].audit_name # _sanitize_audit_name(scans[i].audit_name)
         /\ WrittenBy(i) # None
         /\ scans[i].status = "complete")
            => scans[i].results_dir = WrittenBy(i)

\* C26: of two scans with distinct labels whose processes each wrote a
\* directory of their own, neither has the directory of the other as its
\* results_dir.
C26_DistinctLabelsDistinctDirectories ==
    \A i, j \in DOMAIN scans :
        (/\ EachWroteItsOwn(i, j)
         /\ scans[i].audit_name # scans[j].audit_name)
            => scans[i].results_dir # WrittenBy(j)

\* C28: a cwac_scan call in mode "cwac" whose urls are empty, which
\* build_config rejects with ValueError, leaves no new config file and no new
\* base_urls directory on disk.
C28_RejectedBuildLeavesDisk ==
    [][\A a \in Labels, launch_ok \in BOOLEAN :
          (mode = "cwac" /\ cwac_scan(a, FALSE, launch_ok)) => tmp' = tmp]_vars

\* C29: in mode "unavailable" the registry holds no scan and no process was
\* started.
C29_UnavailableLaunchesNothing ==
    mode = "unavailable" => (scans = <<>> /\ procs = <<>>)

\* ------------------------------------------ the crawl loop, stand alone
\* The while loop of axe_scanner._run_scan: the seed URLs of the config, the
\* links extract_links finds on each page, and max_links_per_domain. visited
\* is kept in the order the URLs were added, which is the order they were
\* scanned in.

\* Seed URLs per config, and the largest max_links_per_domain less one.
MaxSeeds == 2

Urls == {"u1", "u2", "u3"}

\* Lists of URLs without repetition, of at most two links: what extract_links
\* returns for a page.
LinkLists ==
    {<<>>} \cup {<<u>> : u \in Urls} \cup {p \in Urls \X Urls : p[1] # p[2]}

SeedLists == UNION { [1 .. n -> Urls] : n \in 1 .. MaxSeeds }

Contains(list, x) == \E i \in DOMAIN list : list[i] = x

\* for link in new_links: if link not in visited and link not in to_visit:
\*     to_visit.append(link)
RECURSIVE AppendNew(_, _, _)
AppendNew(to_visit, visited, new_links) ==
    IF new_links = <<>>
    THEN to_visit
    ELSE AppendNew(
            IF ~Contains(visited, Head(new_links)) /\ ~Contains(to_visit, Head(new_links))
            THEN Append(to_visit, Head(new_links))
            ELSE to_visit,
            visited, Tail(new_links))

\* Mutant: the loop does not test how many URLs it has visited.
LoopCondition_unbounded == crawl.to_visit # <<>>

\* while to_visit and len(visited) < max_links
LoopCondition == crawl.to_visit # <<>> /\ Len(crawl.visited) < crawl.max_links

InitCrawl ==
    /\ load = CHOOSE w \in Workloads : TRUE
    /\ mode = "axe-only"
    /\ scans = <<>>
    /\ procs = <<>>
    /\ fs = {}
    /\ tmp = {}
    /\ clock = 0
    /\ nextId = 0
    /\ call = Idle
    /\ result = NoResult
    /\ dq = NoDq
    /\ threads = <<>>
    /\ rd = NoRd
    /\ \E urls \in SeedLists, links \in [Urls -> LinkLists], max_links \in 0 .. MaxSeeds + 1 :
          crawl = [pc |-> "loop", urls |-> urls, visited |-> <<>>, to_visit |-> urls,
                   links |-> links, max_links |-> max_links]

CrawlFrame ==
    UNCHANGED <<load, mode, scans, procs, fs, tmp, clock, nextId, call, result, dq, threads, rd>>

\* An iteration whose URL was visited before: continue.
CrawlSkip ==
    /\ crawl.pc = "loop"
    /\ LoopCondition
    /\ Contains(crawl.visited, Head(crawl.to_visit))
    /\ crawl' = [crawl EXCEPT !.to_visit = Tail(@)]
    /\ CrawlFrame

\* An iteration that scans its URL; when the page loads and the limit is not
\* reached yet, its new links are queued.
CrawlVisit(loaded) ==
    /\ crawl.pc = "loop"
    /\ LoopCondition
    /\ ~Contains(crawl.visited, Head(crawl.to_visit))
    /\ LET current_url == Head(crawl.to_visit)
           visited == Append(crawl.visited, current_url)
           to_visit == Tail(crawl.to_visit)
       IN  crawl' = [crawl EXCEPT
              !.visited = visited,
              !.to_visit = IF loaded /\ Len(visited) < crawl.max_links
                           THEN AppendNew(to_visit, visited, crawl.links[current_url])
                           ELSE to_visit]
    /\ CrawlFrame

\* The loop condition fails: browser.close() and the CSV is written.
CrawlEnd ==
    /\ crawl.pc = "loop"
    /\ ~LoopCondition
    /\ crawl' = [crawl EXCEPT !.pc = "done"]
    /\ CrawlFrame

NextCrawl == CrawlSkip \/ (\E loaded \in BOOLEAN : CrawlVisit(loaded)) \/ CrawlEnd

SpecCrawl == InitCrawl /\ [][NextCrawl]_vars

PipeScripts == UNION { [1 .. n -> {"out", "err"}] : n \in 0 .. PipeCap + 2 }

InitPipes ==
    /\ load = CHOOSE w \in Workloads : w.scans = 1 /\ ~w.tools
    /\ mode = "cwac"
    /\ \E script \in PipeScripts : procs = register(<<>>, 1, Popen("cwac", <<"a">>, script))
    /\ scans = register(<<>>, 1,
            ScanRecord(Some(1), <<"config", 1>>, <<"base_urls", 1>>, None, 0, <<"a">>))
    /\ fs = {}
    /\ tmp = {<<"config", 1>>, <<"base_urls", 1>>}
    /\ clock = 0
    /\ nextId = 1
    /\ call = Idle
    /\ result = NoResult
    /\ dq = NoDq
    /\ threads = <<>>
    /\ crawl = NoCrawl
    /\ rd = NoRd

NextPipes ==
    \/ ChildWrite(1)
    \/ \E code \in ExitCodes : ChildExit(1, code)
    \/ update_status(1)
    \/ CaptureStdout
    \/ CaptureStderr
    \/ SetEndTime
    \/ SetStatus
    \/ Discover

SpecPipes == InitPipes /\ [][NextPipes]_vars

\* The child is blocked in a write to stderr: its next line goes to stderr
\* and the pipe is full.
BlockedOnStderr(id) ==
    /\ Running(id)
    /\ procs[id].script # <<>>
    /\ Head(procs[id].script) = "err"
    /\ Len(procs[id].perr) >= PipeCap

\* C27: update_status is never waiting for end-of-stream on stdout (nothing
\* to read, the pipe open) while the child is blocked writing to a full
\* stderr pipe.
C27_NoPipeDeadlock ==
    ~ /\ call.pc = "capture_stdout"
      /\ procs[Child(call.id)].pout = <<>>
      /\ BlockedOnStderr(Child(call.id))

====
